---- MODULE Spec2Model ----
(***************************************************************************)
(* State-machine model of the newsletter generation pipeline:             *)
(*   app/scripts/generate_newsletter.py  (orchestrator)                    *)
(*   app/agents/news_fetcher.py, summarizer.py, formatter.py, sender.py    *)
(*   app/db/database.py, app/core/config.py                                *)
(*                                                                         *)
(* Python values are represented as follows.  A dict with fixed string    *)
(* keys is a record; a dict keyed by run-time strings (insertion ordered) *)
(* is a sequence of [k, v] entries; None and the empty dict/list are <<>> *)
(* where a dict or list is expected and the string None where a string is *)
(* expected.  A text returned by the generation capability is a sequence  *)
(* of tokens (single characters, and the markers Resumen: / Relevancia:   *)
(* as one token each); an f-string is the tuple of its parts.              *)
(***************************************************************************)
EXTENDS Integers, Sequences, FiniteSets, TLC

\* ---------------------------------------------------------------- bounds
\* longest topic list the storage collaborator returns
MaxTopics == 1
\* most failing generation / search / template calls injected in one run
MaxFaults == 1

\* ------------------------------------------------------- python helpers
None == "None"

\* truth value of an optional string (None and "" are falsy)
TruthyStr(v) == v \notin {None, ""}

\* dict.get(key, default) on a record
Get(d, key, default) == IF key \in DOMAIN d THEN d[key] ELSE default

\* d[key] = value on an insertion-ordered dict
DictSet(d, key, value) ==
    IF \E i \in 1..Len(d) : d[i].k = key
    THEN [i \in 1..Len(d) |-> IF d[i].k = key THEN [k |-> key, v |-> value] ELSE d[i]]
    ELSE Append(d, [k |-> key, v |-> value])

\* list(d.keys())
DictKeys(d) == [i \in 1..Len(d) |-> d[i].k]

\* a slice that cuts nothing
Take_all(seq, n) == seq

\* seq[:n]
Take(seq, n) == SubSeq(seq, 1, IF n < Len(seq) THEN n ELSE Len(seq))

Whitespace == {" ", "\n"}

RECURSIVE LStrip(_, _)
LStrip(text, chars) ==
    IF text # <<>> /\ Head(text) \in chars THEN LStrip(Tail(text), chars) ELSE text

RECURSIVE RStrip(_, _)
RStrip(text, chars) ==
    IF text # <<>> /\ text[Len(text)] \in chars
    THEN RStrip(SubSeq(text, 1, Len(text) - 1), chars)
    ELSE text

\* str.strip(chars); str.strip() is Strip(text, Whitespace)
Strip(text, chars) == RStrip(LStrip(text, chars), chars)

\* position of the first occurrence of a token, 0 when absent
RECURSIVE FindFrom(_, _, _)
FindFrom(text, tok, i) ==
    IF i > Len(text) THEN 0
    ELSE IF text[i] = tok THEN i ELSE FindFrom(text, tok, i + 1)

Find(text, tok) == FindFrom(text, tok, 1)

\* str.split(sep): every piece between occurrences of sep
RECURSIVE Split(_, _)
Split(text, sep) ==
    LET p == Find(text, sep)
    IN  IF p = 0 THEN <<text>>
        ELSE <<SubSeq(text, 1, p - 1)>> \o Split(SubSeq(text, p + 1, Len(text)), sep)

\* position of the last occurrence of a token, 0 when absent
RECURSIVE FindLast(_, _, _)
FindLast(text, tok, i) ==
    IF i = 0 THEN 0
    ELSE IF text[i] = tok THEN i ELSE FindLast(text, tok, i - 1)

\* at most one cut, at the last occurrence of sep
Split1_at_last(text, sep) ==
    LET p == FindLast(text, sep, Len(text))
    IN  IF p = 0 THEN <<text>>
        ELSE <<SubSeq(text, 1, p - 1), SubSeq(text, p + 1, Len(text))>>

\* str.split(sep, 1): at most one cut, at the first occurrence of sep
Split1(text, sep) ==
    LET p == Find(text, sep)
    IN  IF p = 0 THEN <<text>>
        ELSE <<SubSeq(text, 1, p - 1), SubSeq(text, p + 1, Len(text))>>

\* concatenation of a sequence of sequences
RECURSIVE Concat(_)
Concat(seqs) == IF seqs = <<>> THEN <<>> ELSE Head(seqs) \o Concat(Tail(seqs))

\* sep.join(texts)
RECURSIVE Join(_, _)
Join(sep, texts) ==
    IF texts = <<>> THEN <<>>
    ELSE IF Len(texts) = 1 THEN texts[1]
    ELSE texts[1] \o <<sep>> \o Join(sep, Tail(texts))

\* str.upper() on the topic names in use
Upper(text) ==
    [i \in 1..Len(text) |->
        CASE text[i] = "Clima" -> "CLIMA"
          [] text[i] = "Inteligencia Artificial" -> "INTELIGENCIA ARTIFICIAL"
          [] text[i] = "Cambio Climático" -> "CAMBIO CLIMÁTICO"
          [] OTHER -> text[i]]

\* number of events of a kind in a log
RECURSIVE Count(_, _)
Count(log, kind) ==
    IF log = <<>> THEN 0
    ELSE (IF Head(log)[1] = kind THEN 1 ELSE 0) + Count(Tail(log), kind)

\* -------------------------------------------------------------- config
Unset == "<unset>"

\* os.getenv(name) / os.getenv(name, default)
getenv(environ, name, default) ==
    IF environ[name] = Unset THEN default ELSE environ[name]

\* int() on the port strings the environments carry
ParseInt(s) == CASE s = "0" -> 0 [] s = "25" -> 25 [] s = "587" -> 587

EnvNames == {"EMAIL_HOST", "EMAIL_PORT", "EMAIL_USERNAME", "EMAIL_PASSWORD"}

\* every process environment: each variable unset, empty or set
Environments ==
    { e \in [EnvNames -> {Unset, "", "0", "25", "smtp.example.com", "secret"}] :
        /\ e["EMAIL_HOST"] \in {Unset, "", "smtp.example.com"}
        /\ e["EMAIL_PORT"] \in {Unset, "0", "25"}
        /\ e["EMAIL_USERNAME"] \in {Unset, "", "secret"}
        /\ e["EMAIL_PASSWORD"] \in {Unset, "", "secret"} }

EnvNothingSet == [n \in EnvNames |-> Unset]

EnvAllSet ==
    [n \in EnvNames |->
        CASE n = "EMAIL_HOST" -> "smtp.example.com"
          [] n = "EMAIL_PORT" -> "25"
          [] OTHER -> "secret"]

\* ---------------------------------------------------------- input data
UserIds == {"u1"}

\* channel names a caller may pass; the last one is not registered
ChannelNames == {"email", "whatsapp", "telegram", "fax"}

AddressKeys == {"email", "phone", "telegram_id"}

\* recipient profiles: each address key absent, None, empty or filled
Profiles ==
    UNION { { [k \in (S \cup {"name"}) |-> IF k = "name" THEN "Ana" ELSE f[k]] :
                f \in [S -> {None, "", "addr"}] } : S \in SUBSET AddressKeys }

\* rows of the users table: every address filled, or none
StoredProfiles ==
    { [name |-> "Ana", email |-> "addr", phone |-> "addr", telegram_id |-> "addr"],
      [name |-> "Ana", email |-> "", phone |-> None, telegram_id |-> None] }

\* topic names are one-token texts
TopicNames == {<<"IA">>, <<"Clima">>}

\* topic lists of the storage collaborator: distinct names, bounded length
TopicLists ==
    UNION { { s \in [1..n -> TopicNames] : \A i, j \in 1..n : i # j => s[i] # s[j] } :
            n \in 0..MaxTopics }

\* texts the generation capability may answer with, per call site
TermTexts == { <<"a", ",", " ", "b">> }
SummaryTexts == { <<"S">> }
ArticleTexts == { <<"Resumen:", " ", "s", "\n", "Relevancia:", " ", "r">> }
TitleTexts == { <<"\"", "T", "\"">>, <<"\"", "\"">> }
IntroTexts == { <<"I">> }

\* _fetch_from_news_api: page_size of the search request
page_size == 5

\* sizes of a search response: empty, a partial page, a full page
SearchHits == {0, 2, page_size}

\* the i-th article of a search response
RawArticle(i) == [title |-> <<"t">>, description |-> <<"d">>, url |-> i]

VARIABLES
    pc,                   \* position of the run
    user_id, channel, mock_data,   \* arguments of generate_and_send_newsletter
    env,                  \* process environment read by app/core/config.py
    user_data, topics,    \* recipient profile and topic list of the run
    fetch,                \* locals of get_news_for_topics
    news_results,
    cond,                 \* locals of summarize_news_by_topic
    summarized_news,
    fmt,                  \* locals of format_newsletter
    formatted_newsletter,
    msg,                  \* the MIME message of _send_by_email
    smtp,                 \* transport steps completed on the SMTP session
    send_result,
    newsletters,          \* rows of the newsletters table
    result,               \* value returned by generate_and_send_newsletter
    trace,                \* log of stage calls/returns and external calls
    escaped,              \* an exception left the function under analysis
    faults,               \* failing generation/search/template calls so far
    call                  \* a single function under analysis: arguments and outcome

vars == <<pc, user_id, channel, mock_data, env, user_data, topics, fetch,
          news_results, cond, summarized_news, fmt, formatted_newsletter, msg,
          smtp, send_result, newsletters, result, trace, escaped, faults, call>>

\* a function's outcome: a returned value or a raised exception
Return(v) == [raised |-> FALSE, value |-> v]
Raise(e) == [raised |-> TRUE, error |-> e]

\* outcomes of one external call: the values it may return, or a failure
\* while the fault budget lasts
Outcomes(values) ==
    { [ok |-> TRUE, value |-> v] : v \in values }
    \cup (IF faults < MaxFaults THEN { [ok |-> FALSE] } ELSE {})

Event(kind, arg) == <<kind, arg>>

\* ------------------------------------------------------------ constants
\* NewsFetcherAgent.__init__: max_articles_per_topic
max_articles_per_topic == 3

\* SummarizerAgent.__init__: include_relevance
include_relevance == TRUE

\* SenderAgent.__init__: self.channels
RegisteredChannels == {"email", "whatsapp", "telegram"}

\* the readings of the clock by _get_formatted_date: a day, and the next
Dates == {"04 de November de 2026", "05 de November de 2026"}

\* the readings the clock may give once it has given one
DatesFrom(date) == IF date = "04 de November de 2026" THEN Dates ELSE {date}

\* the dates the clock may read after the readings of a log; the first
\* reading is the first day
RECURSIVE ClockAfter(_)
ClockAfter(log) ==
    IF log = <<>> THEN {"04 de November de 2026"}
    ELSE IF log[Len(log)][1] = "clock" THEN DatesFrom(log[Len(log)][2])
    ELSE ClockAfter(SubSeq(log, 1, Len(log) - 1))

\* --------------------------------------------------- app/db/database.py
\* outcomes of one request to the storage collaborator
StorageOutcomes(values) ==
    { [ok |-> TRUE, value |-> v] : v \in values } \cup { [ok |-> FALSE] }

\* response.data of the users query: no row, or the row of the user
UserRows == { <<>> } \cup { <<p>> : p \in StoredProfiles }

\* response.data of the user_topics query for a list of topic names
TopicRows(names) ==
    [i \in 1..Len(names) |->
        [topic_id |-> i, topics |-> [name |-> names[i], description |-> <<"desc">>]]]

\* get_user_by_id without its try/except: a failing request raises
get_user_by_id_no_except(response) ==
    IF ~response.ok THEN Raise("storage error")
    ELSE IF response.value # <<>> /\ Len(response.value) > 0
         THEN Return(response.value[1])
         ELSE Return(<<>>)

get_user_by_id(response) ==
    IF ~response.ok THEN Return(<<>>)
    ELSE IF response.value # <<>> /\ Len(response.value) > 0
         THEN Return(response.value[1])
         ELSE Return(<<>>)

get_user_topics(response) ==
    IF ~response.ok THEN Return(<<>>)
    ELSE IF response.value # <<>>
         THEN Return([i \in 1..Len(response.value) |->
                        [id |-> response.value[i].topic_id,
                         name |-> response.value[i].topics.name,
                         description |-> response.value[i].topics.description]])
         ELSE Return(<<>>)

\* the row the insert request carries
NewsletterRow(uid, content, topic_names, chan) ==
    [user_id |-> uid, content |-> content, topics |-> topic_names,
     channel |-> chan, sent_at |-> "now()"]

\* save_newsletter without its try/except: a failing insert raises
save_newsletter_no_except(response) ==
    IF ~response.ok THEN Raise("storage error")
    ELSE IF response.value # <<>> /\ Len(response.value) > 0
         THEN Return(response.value[1])
         ELSE Return(<<>>)

\* lines 91-109: the inserted row, or the empty dict when the insert gives
\* nothing or fails
save_newsletter(response) ==
    IF ~response.ok THEN Return(<<>>)
    ELSE IF response.value # <<>> /\ Len(response.value) > 0
         THEN Return(response.value[1])
         ELSE Return(<<>>)

\* ------------------------------------- app/scripts/generate_newsletter.py
MockUser(uid) ==
    [id |-> uid, name |-> "Usuario de Prueba", email |-> "test@example.com",
     phone |-> "+1234567890", telegram_id |-> "12345678"]

MockTopics ==
    << [id |-> "1", name |-> <<"Inteligencia Artificial">>,
        description |-> <<"Avances en IA y machine learning">>],
       [id |-> "2", name |-> <<"Cambio Climático">>,
        description |-> <<"Noticias sobre el medio ambiente y cambio climático">>] >>

FetchLocals == [ti |-> 1, search_terms |-> <<>>, si |-> 1, news_items |-> <<>>]
CondLocals == [ci |-> 1, topic_summary |-> <<>>, ai |-> 1, articles |-> <<>>]
FmtLocals == [title |-> <<>>, introduction |-> <<>>]

\* the state before the run has done anything
Fresh ==
    /\ user_data = <<>> /\ topics = <<>>
    /\ fetch = FetchLocals /\ news_results = <<>>
    /\ cond = CondLocals /\ summarized_news = <<>>
    /\ fmt = FmtLocals /\ formatted_newsletter = <<>>
    /\ msg = <<>> /\ smtp = <<>> /\ send_result = <<>>
    /\ newsletters = <<>> /\ result = <<>>
    /\ trace = <<>> /\ escaped = FALSE /\ faults = 0

Init ==
    /\ pc = "start"
    /\ user_id \in UserIds
    /\ channel \in ChannelNames
    /\ mock_data \in BOOLEAN
    /\ env \in {EnvNothingSet, EnvAllSet}
    /\ Fresh
    /\ call = <<>>

\* the stages with rendering and condensing exchanged
StageOrder_render_first ==
    <<"get_news_for_topics", "format_newsletter", "summarize_news_by_topic",
      "send_newsletter">>

\* lines 87-102: the stages, in the order the run awaits them
StageOrder ==
    <<"get_news_for_topics", "summarize_news_by_topic", "format_newsletter",
      "send_newsletter">>

\* where a stage starts
StagePc(stage) ==
    CASE stage = "get_news_for_topics" -> "fetch_terms"
      [] stage = "summarize_news_by_topic" -> "cond_topic"
      [] stage = "format_newsletter" -> "fmt_title"
      [] stage = "send_newsletter" -> "send"

\* line 89: the first stage is called
CallFirstStage(tr) ==
    /\ pc' = StagePc(StageOrder[1])
    /\ trace' = Append(tr, Event("call", StageOrder[1]))

\* a stage returns and the run is never resumed
Handoff_lost(stage, tr) ==
    /\ pc' = "awaiting"
    /\ trace' = Append(tr, Event("return", stage))

\* lines 89-102: a stage returns and the run calls the one after it
Handoff(stage, tr) ==
    LET i == CHOOSE j \in 1..Len(StageOrder) : StageOrder[j] = stage
    IN  /\ pc' = StagePc(StageOrder[i + 1])
        /\ trace' = tr \o << Event("return", stage), Event("call", StageOrder[i + 1]) >>

\* line 79: if not user_data
UserMissing(u) == u = <<>>

\* the topic check dropped
TopicsMissing_never(t) == FALSE

\* line 84: if not topics
TopicsMissing(t) == t = <<>>

\* an exception leaves the function: nothing is returned
Escapes ==
    /\ pc' = "raised"
    /\ escaped' = TRUE

\* lines 63-75: placeholder recipient and topics, then stage 1 is called
LoadMockData ==
    /\ pc = "start"
    /\ mock_data
    /\ user_data' = MockUser(user_id)
    /\ topics' = MockTopics
    /\ CallFirstStage(trace)
    /\ UNCHANGED <<call, user_id, channel, mock_data, env, fetch, news_results, cond,
                   summarized_news, fmt, formatted_newsletter, msg, smtp,
                   send_result, newsletters, result, escaped, faults>>

\* lines 76-80: read the recipient; absent recipient is a run-level failure
GetUserById ==
    /\ pc = "start"
    /\ ~mock_data
    /\ \E response \in StorageOutcomes(UserRows) :
        LET r == get_user_by_id(response)
            tr == Append(trace, Event("storage", "get_user_by_id"))
        IN  /\ trace' = tr
            /\ IF r.raised
               THEN Escapes /\ UNCHANGED <<user_data, result>>
               ELSE /\ escaped' = escaped
                    /\ user_data' = r.value
                    /\ IF UserMissing(r.value)
                       THEN /\ result' = [success |-> FALSE,
                                          message |-> <<"Usuario no encontrado: ", user_id>>]
                            /\ pc' = "done"
                       ELSE /\ result' = result
                            /\ pc' = "get_topics"
    /\ UNCHANGED <<call, user_id, channel, mock_data, env, topics, fetch, news_results,
                   cond, summarized_news, fmt, formatted_newsletter, msg, smtp,
                   send_result, newsletters, faults>>

\* lines 82-89: read the topics; an empty list is a run-level failure,
\* otherwise stage 1 is called
GetUserTopics ==
    /\ pc = "get_topics"
    /\ \E names \in TopicLists : \E response \in StorageOutcomes({TopicRows(names)}) :
        LET r == get_user_topics(response)
            tr == Append(trace, Event("storage", "get_user_topics"))
        IN  IF r.raised
            THEN Escapes /\ trace' = tr /\ UNCHANGED <<topics, result>>
            ELSE /\ escaped' = escaped
                 /\ topics' = r.value
                 /\ IF TopicsMissing(r.value)
                    THEN /\ result' = [success |-> FALSE,
                                       message |-> <<"El usuario no tiene tópicos configurados">>]
                         /\ pc' = "done"
                         /\ trace' = tr
                    ELSE /\ result' = result
                         /\ CallFirstStage(tr)
    /\ UNCHANGED <<call, user_id, channel, mock_data, env, user_data, fetch, news_results,
                   cond, summarized_news, fmt, formatted_newsletter, msg, smtp,
                   send_result, newsletters, faults>>

\* ---------------------------------------------- app/agents/news_fetcher.py
\* _get_search_terms whose fallback gives the topic name twice
_get_search_terms_twice(topic_name, response) ==
    IF response.ok
    THEN Return(Split(Strip(response.value, Whitespace), ","))
    ELSE Return(<<topic_name, topic_name>>)

\* lines 90-110: the terms of the response, or the topic name alone
_get_search_terms(topic_name, response) ==
    IF response.ok
    THEN LET search_terms_text == Strip(response.value, Whitespace)
             pieces == Split(search_terms_text, ",")
         IN  Return([i \in 1..Len(pieces) |-> Strip(pieces[i], Whitespace)])
    ELSE Return(<<topic_name>>)

\* _fetch_from_news_api answering a failed request with an item
_fetch_from_news_api_stale(query, response) ==
    Return(<< [title |-> <<"t">>, description |-> <<"d">>, url |-> 1,
               search_term |-> query] >>)

\* lines 123-149: the items of the response, or none when the request fails
_fetch_from_news_api(query, response) ==
    IF response.ok
    THEN Return([i \in 1..response.value |->
                    [title |-> RawArticle(i).title,
                     description |-> RawArticle(i).description,
                     url |-> RawArticle(i).url,
                     search_term |-> query]])
    ELSE Return(<<>>)

\* lines 42-47: next topic of the loop, its search terms from the generation
\* capability
GetSearchTerms ==
    /\ pc = "fetch_terms"
    /\ \E response \in Outcomes(TermTexts) :
        LET topic_name == topics[fetch.ti].name
            r == _get_search_terms(topic_name, response)
        IN  /\ trace' = Append(trace, Event("generation", <<"search_terms", topic_name>>))
                       \o (IF response.ok THEN <<>>
                           ELSE << Event("print", <<"search_terms", topic_name>>) >>)
            /\ faults' = IF response.ok THEN faults ELSE faults + 1
            /\ IF r.raised
               THEN Escapes /\ fetch' = fetch
               ELSE /\ escaped' = escaped
                    /\ fetch' = [fetch EXCEPT !.search_terms = r.value, !.si = 1,
                                              !.news_items = <<>>]
                    /\ pc' = "fetch_search"
    /\ UNCHANGED <<call, user_id, channel, mock_data, env, user_data, topics, news_results,
                   cond, summarized_news, fmt, formatted_newsletter, msg, smtp,
                   send_result, newsletters, result>>

\* lines 51-66: one search request of the inner loop; when the loop ends
\* (cap reached or terms exhausted) the topic is stored and the outer loop
\* advances; after the last topic the stage returns and stage 2 is called
FetchFromNewsApi ==
    /\ pc = "fetch_search"
    /\ \E response \in Outcomes(SearchHits) :
        LET topic_name == topics[fetch.ti].name
            term == fetch.search_terms[fetch.si]
            r == _fetch_from_news_api(term, response)
            extended == IF r.raised THEN fetch.news_items
                        ELSE fetch.news_items \o r.value
            capped == ~r.raised /\ Len(extended) >= max_articles_per_topic
            news_items == IF capped THEN Take(extended, max_articles_per_topic)
                          ELSE extended
            loop_ends == capped \/ fetch.si = Len(fetch.search_terms)
            tr == Append(trace, Event("search", <<topic_name, term>>))
                  \o (IF response.ok THEN <<>>
                      ELSE << Event("print", <<"search", topic_name, term>>) >>)
        IN  /\ faults' = IF response.ok THEN faults ELSE faults + 1
            /\ IF ~loop_ends
               THEN /\ fetch' = [fetch EXCEPT !.si = @ + 1, !.news_items = news_items]
                    /\ pc' = pc
                    /\ trace' = tr
                    /\ news_results' = news_results
               ELSE /\ news_results' = DictSet(news_results, topic_name, news_items)
                    /\ fetch' = [fetch EXCEPT !.ti = @ + 1, !.news_items = news_items]
                    /\ IF fetch.ti < Len(topics)
                       THEN pc' = "fetch_terms" /\ trace' = tr
                       ELSE Handoff("get_news_for_topics", tr)
    /\ UNCHANGED <<call, user_id, channel, mock_data, env, user_data, topics, cond,
                   summarized_news, fmt, formatted_newsletter, msg, smtp,
                   send_result, newsletters, result, escaped>>

\* ------------------------------------------------ app/agents/summarizer.py
_generate_topic_summary(topic, news_items, response) ==
    IF response.ok
    THEN Return(Strip(response.value, Whitespace))
    ELSE Return(<<"Resumen no disponible para '">> \o topic \o <<"'.">>)

\* _summarize_article without its except: a failing call raises
_summarize_article_no_except(article, topic, with_relevance, response) ==
    IF response.ok
    THEN Return(("summary" :> Strip(response.value, Whitespace)) @@ article)
    ELSE Raise("generation error")

\* _summarize_article whose fallback ignores the description
_summarize_article_canned(article, topic, with_relevance, response) ==
    IF response.ok
    THEN Return(("summary" :> Strip(response.value, Whitespace)) @@ article)
    ELSE Return(("relevance" :> <<"Información no disponible.">>)
                @@ ("summary" :> <<"Resumen no disponible.">>) @@ article)

\* _summarize_article keeping the note whenever the marker is there
_summarize_article_blank_note(article, topic, with_relevance, response) ==
    IF response.ok
    THEN LET parts == Split1(Strip(response.value, Whitespace), "Relevancia:")
             summarized_article ==
                ("summary" :> Strip(parts[1], Whitespace)) @@ article
         IN  Return(IF with_relevance /\ Len(parts) > 1
                    THEN ("relevance" :> Strip(parts[2], Whitespace)) @@ summarized_article
                    ELSE summarized_article)
    ELSE Return(IF with_relevance
                THEN ("relevance" :> <<"Información no disponible.">>)
                     @@ ("summary" :> <<"Resumen no disponible.">>) @@ article
                ELSE ("summary" :> <<"Resumen no disponible.">>) @@ article)

\* lines 117-215: the item with its synopsis and, when there is one, its
\* relevance note
_summarize_article(article, topic, with_relevance, response) ==
    IF response.ok
    THEN LET response_text == Strip(response.value, Whitespace)
             parts == Split1(response_text, "Relevancia:")
             relevance == IF with_relevance /\ Len(parts) > 1
                          THEN Strip(parts[2], Whitespace) ELSE <<>>
             summary ==
                IF with_relevance /\ Len(parts) > 1
                THEN IF Find(parts[1], "Resumen:") # 0
                     THEN Strip(Split1(parts[1], "Resumen:")[2], Whitespace)
                     ELSE Strip(parts[1], Whitespace)
                ELSE response_text
             summarized_article == ("summary" :> summary) @@ article
         IN  Return(IF relevance # <<>>
                    THEN ("relevance" :> relevance) @@ summarized_article
                    ELSE summarized_article)
    ELSE LET description == Get(article, "description", <<>>)
             summary == IF description # <<>> THEN description
                        ELSE <<"Resumen no disponible.">>
             summarized_article == ("summary" :> summary) @@ article
         IN  Return(IF with_relevance
                    THEN ("relevance" :> <<"Información no disponible.">>) @@ summarized_article
                    ELSE summarized_article)

\* the loop of summarize_news_by_topic moves to the next topic; after the
\* last one the stage returns and stage 3 is called
CondAdvance(tr) ==
    /\ cond' = [CondLocals EXCEPT !.ci = cond.ci + 1]
    /\ IF cond.ci < Len(news_results)
       THEN pc' = "cond_topic" /\ trace' = tr
       ELSE Handoff("summarize_news_by_topic", tr)

\* the test for an empty item list, never true
HasNoItems_never(news_items) == FALSE

\* line 39: if not news_items
HasNoItems(news_items) == news_items = <<>>

\* lines 39-45: a topic without items gets the canned synopsis, no call
SummarizeEmptyTopic ==
    /\ pc = "cond_topic"
    /\ HasNoItems(news_results[cond.ci].v)
    /\ LET topic == news_results[cond.ci].k
       IN  summarized_news' =
             DictSet(summarized_news, topic,
                     [summary |-> <<"No se encontraron noticias para el tópico '">>
                                  \o topic \o <<"'.">>,
                      articles |-> <<>>])
    /\ CondAdvance(trace)
    /\ UNCHANGED <<call, user_id, channel, mock_data, env, user_data, topics, fetch,
                   news_results, fmt, formatted_newsletter, msg, smtp, send_result,
                   newsletters, result, escaped, faults>>

\* lines 47-48: the synopsis of a topic with items
GenerateTopicSummary ==
    /\ pc = "cond_topic"
    /\ ~HasNoItems(news_results[cond.ci].v)
    /\ \E response \in Outcomes(SummaryTexts) :
        LET topic == news_results[cond.ci].k
            r == _generate_topic_summary(topic, news_results[cond.ci].v, response)
        IN  /\ trace' = Append(trace, Event("generation", <<"topic_summary", topic>>))
            /\ faults' = IF response.ok THEN faults ELSE faults + 1
            /\ IF r.raised
               THEN Escapes /\ cond' = cond
               ELSE /\ escaped' = escaped
                    /\ cond' = [cond EXCEPT !.topic_summary = r.value, !.ai = 1,
                                            !.articles = <<>>]
                    /\ pc' = "cond_article"
    /\ UNCHANGED <<call, user_id, channel, mock_data, env, user_data, topics, fetch,
                   news_results, summarized_news, fmt, formatted_newsletter, msg,
                   smtp, send_result, newsletters, result>>

\* lines 52-64: one item of the topic; after the last item the bundle is
\* stored
SummarizeArticle ==
    /\ pc = "cond_article"
    /\ \E response \in Outcomes(ArticleTexts) :
        LET topic == news_results[cond.ci].k
            news_items == news_results[cond.ci].v
            r == _summarize_article(news_items[cond.ai], topic, include_relevance, response)
            tr == Append(trace, Event("generation", <<"article", topic, cond.ai>>))
        IN  /\ faults' = IF response.ok THEN faults ELSE faults + 1
            /\ IF r.raised
               THEN Escapes /\ trace' = tr /\ UNCHANGED <<cond, summarized_news>>
               ELSE LET summarized_articles == Append(cond.articles, r.value)
                    IN  /\ escaped' = escaped
                        /\ IF cond.ai < Len(news_items)
                           THEN /\ cond' = [cond EXCEPT !.ai = @ + 1,
                                                        !.articles = summarized_articles]
                                /\ pc' = pc
                                /\ trace' = tr
                                /\ summarized_news' = summarized_news
                           ELSE /\ summarized_news' =
                                     DictSet(summarized_news, topic,
                                             [summary |-> cond.topic_summary,
                                              articles |-> summarized_articles])
                                /\ CondAdvance(tr)
    /\ UNCHANGED <<call, user_id, channel, mock_data, env, user_data, topics, fetch,
                   news_results, fmt, formatted_newsletter, msg, smtp, send_result,
                   newsletters, result>>

\* ------------------------------------------------- app/agents/formatter.py
template_name == "default_email.html"

\* every name joined, whatever their number
TopicsText_all(topic_names, suffix) == Join(", ", topic_names)

\* ", ".join(topics[:3]), extended by suffix when there are more than 3
TopicsText(topic_names, suffix) ==
    Join(", ", Take(topic_names, 3)) \o (IF Len(topic_names) > 3 THEN <<suffix>> ELSE <<>>)

\* _generate_title cutting the quotes before the blanks
_generate_title_quotes_first(user_name, topic_names, response) ==
    IF response.ok
    THEN Return(Strip(Strip(response.value, {"\"", "'"}), Whitespace))
    ELSE Return(<<"Tu Resumen de Noticias: ">> \o TopicsText(topic_names, " y más"))

\* lines 110-139: the response without the blanks and then the quotes around
\* it, or the title made of the topic names
_generate_title(user_name, topic_names, response) ==
    IF response.ok
    THEN Return(Strip(Strip(response.value, Whitespace), {"\"", "'"}))
    ELSE Return(<<"Tu Resumen de Noticias: ">> \o TopicsText(topic_names, " y más"))

_generate_introduction(user_name, topic_names, response) ==
    IF response.ok
    THEN Return(Strip(response.value, Whitespace))
    ELSE Return(<<"Hola ", user_name, ", aquí tienes tu resumen de noticias sobre ">>
                \o TopicsText(topic_names, " y otros temas") \o <<" para hoy.">>)

\* lines 63-78: the template context
TemplateData(user_name, newsletter_title, introduction, news, date) ==
    [user_name |-> user_name,
     newsletter_title |-> newsletter_title,
     introduction |-> introduction,
     topics |-> [i \in 1..Len(news) |->
                    [name |-> news[i].k,
                     summary |-> Get(news[i].v, "summary", <<>>),
                     articles |-> Get(news[i].v, "articles", <<>>)]],
     date |-> date]

\* the lines of one article in the plain-text body
TextArticle(i, article) ==
    << <<i, ". ">> \o Get(article, "title", <<"Sin título">>),
       <<"   ">> \o Get(article, "summary", <<"Sin resumen">>) >>
    \o (IF "relevance" \in DOMAIN article
        THEN << <<"   Relevancia: ">> \o article.relevance >> ELSE <<>>)
    \o << <<"   Fuente: ", Get(article, "source", "Desconocida"), " - ",
            Get(article, "url", "")>>, <<>> >>

TextTopic(topic) ==
    << <<"[U+1F537] ">> \o Upper(topic.name), topic.summary, <<>> >>
    \o Concat([i \in 1..Len(topic.articles) |-> TextArticle(i, topic.articles[i])])
    \o << <<>> >>

\* the plain-text body, as its sequence of lines
_generate_text_version(template_data) ==
    << <<"[U+1F4F0] ">> \o template_data.newsletter_title,
       <<"[U+1F4C5] ", template_data.date>>, <<>>,
       <<"Hola ", template_data.user_name, ",">>, <<>>,
       template_data.introduction, <<>> >>
    \o Concat([i \in 1..Len(template_data.topics) |-> TextTopic(template_data.topics[i])])
    \o << <<"¡Gracias por leer tu newsletter personalizado!">>,
          <<"Recibe este resumen diariamente según tus intereses.">> >>

\* the elements of one article in the fallback structured body
HtmlArticle(article) ==
    << <<"h3">> \o Get(article, "title", <<"Sin título">>),
       <<"p">> \o Get(article, "summary", <<"Sin resumen">>) >>
    \o (IF "relevance" \in DOMAIN article
        THEN << <<"p", "Relevancia:">> \o article.relevance >> ELSE <<>>)
    \o << <<"p", "Fuente: ", Get(article, "source", "Desconocida"), " - ",
            "a", Get(article, "url", "#")>> >>

HtmlTopic(topic) ==
    << <<"h2">> \o topic.name, <<"p", "em">> \o topic.summary >>
    \o Concat([i \in 1..Len(topic.articles) |-> HtmlArticle(topic.articles[i])])

\* a fallback that assembles nothing
_generate_simple_html_empty(data) == <<>>

\* the fallback structured body, as its sequence of elements
_generate_simple_html(data) ==
    << <<"title">> \o data.newsletter_title,
       <<"h1">> \o data.newsletter_title,
       <<"p", data.date>>,
       <<"p", "Hola ", data.user_name, ",">>,
       <<"p">> \o data.introduction >>
    \o Concat([i \in 1..Len(data.topics) |-> HtmlTopic(data.topics[i])])
    \o << <<"p", "¡Gracias por leer tu newsletter personalizado!",
            "Recibe este resumen diariamente según tus intereses.">> >>

\* lines 56-57: the title
GenerateTitle ==
    /\ pc = "fmt_title"
    /\ \E response \in Outcomes(TitleTexts) :
        LET r == _generate_title(Get(user_data, "name", "Usuario"),
                                 DictKeys(summarized_news), response)
        IN  /\ faults' = IF response.ok THEN faults ELSE faults + 1
            /\ IF r.raised
               THEN Escapes /\ fmt' = fmt
               ELSE /\ escaped' = escaped
                    /\ fmt' = [fmt EXCEPT !.title = r.value]
                    /\ pc' = "fmt_intro"
            /\ trace' = Append(trace, Event("generation", <<"title">>))
                       \o (IF response.ok THEN <<>>
                           ELSE << Event("print", <<"title">>) >>)
    /\ UNCHANGED <<call, user_id, channel, mock_data, env, user_data, topics, fetch,
                   news_results, cond, summarized_news, formatted_newsletter, msg,
                   smtp, send_result, newsletters, result>>

\* lines 59-60: the opening paragraph
GenerateIntroduction ==
    /\ pc = "fmt_intro"
    /\ \E response \in Outcomes(IntroTexts) :
        LET r == _generate_introduction(Get(user_data, "name", "Usuario"),
                                        DictKeys(summarized_news), response)
        IN  /\ faults' = IF response.ok THEN faults ELSE faults + 1
            /\ IF r.raised
               THEN Escapes /\ fmt' = fmt
               ELSE /\ escaped' = escaped
                    /\ fmt' = [fmt EXCEPT !.introduction = r.value]
                    /\ pc' = "fmt_render"
            /\ trace' = Append(trace, Event("generation", <<"introduction">>))
                       \o (IF response.ok THEN <<>>
                           ELSE << Event("print", <<"introduction">>) >>)
    /\ UNCHANGED <<call, user_id, channel, mock_data, env, user_data, topics, fetch,
                   news_results, cond, summarized_news, formatted_newsletter, msg,
                   smtp, send_result, newsletters, result>>

\* the document with the plain-text body dated by the clock read again
FormattedNewsletter_dated_again(template_data, html_content, subject_date) ==
    [html |-> html_content,
     text |-> _generate_text_version([template_data EXCEPT !.date = subject_date]),
     title |-> template_data.newsletter_title,
     subject |-> template_data.newsletter_title \o <<" - ", subject_date>>]

\* lines 89-97: the plain-text body from the context, and the document
\* returned; the subject carries a second reading of the clock
FormattedNewsletter(template_data, html_content, subject_date) ==
    [html |-> html_content,
     text |-> _generate_text_version(template_data),
     title |-> template_data.newsletter_title,
     subject |-> template_data.newsletter_title \o <<" - ", subject_date>>]

\* lines 62-97: the context, the structured body (template, or the simple
\* body when the template raises), the plain-text body; the stage returns
\* and stage 4 is called
RenderTemplate ==
    /\ pc = "fmt_render"
    /\ \E response \in Outcomes({template_name}) :
       \E date \in ClockAfter(trace) : \E subject_date \in DatesFrom(date) :
        LET template_data == TemplateData(Get(user_data, "name", "Usuario"), fmt.title,
                                          fmt.introduction, summarized_news, date)
            html_content == IF response.ok
                            THEN << <<"template", response.value, template_data>> >>
                            ELSE _generate_simple_html(template_data)
            tr == << Event("clock", date), Event("template", template_name) >>
                  \o (IF response.ok THEN <<>>
                      ELSE << Event("print", <<"template">>) >>)
                  \o << Event("clock", subject_date) >>
        IN  /\ faults' = IF response.ok THEN faults ELSE faults + 1
            /\ formatted_newsletter' =
                 FormattedNewsletter(template_data, html_content, subject_date)
            /\ Handoff("format_newsletter", trace \o tr)
    /\ UNCHANGED <<call, user_id, channel, mock_data, env, user_data, topics, fetch,
                   news_results, cond, summarized_news, fmt, msg, smtp, send_result,
                   newsletters, result, escaped>>

\* --------------------------------------------------- app/core/config.py
EMAIL_HOST == getenv(env, "EMAIL_HOST", None)
EMAIL_PORT == ParseInt(getenv(env, "EMAIL_PORT", "587"))
EMAIL_USERNAME == getenv(env, "EMAIL_USERNAME", None)
EMAIL_PASSWORD == getenv(env, "EMAIL_PASSWORD", None)

\* ---------------------------------------------------- app/agents/sender.py
\* the credential check with the password left out
CredentialsConfigured_without_password ==
    /\ TruthyStr(EMAIL_HOST)
    /\ EMAIL_PORT # 0
    /\ TruthyStr(EMAIL_USERNAME)

\* all([EMAIL_HOST, EMAIL_PORT, EMAIL_USERNAME, EMAIL_PASSWORD])
CredentialsConfigured ==
    /\ TruthyStr(EMAIL_HOST)
    /\ EMAIL_PORT # 0
    /\ TruthyStr(EMAIL_USERNAME)
    /\ TruthyStr(EMAIL_PASSWORD)

\* the session calls with the login ahead of the upgrade to TLS
SmtpSteps_login_first == <<"connect", "login", "starttls", "send_message", "quit">>

\* the session calls with the login made a second time
SmtpSteps_login_twice ==
    <<"connect", "starttls", "login", "login", "send_message", "quit">>

\* the calls made on the SMTP session, in program order
SmtpSteps == <<"connect", "starttls", "login", "send_message", "quit">>

\* a channel implementation that goes on to open a transport session
Pending(m) == [raised |-> FALSE, pending |-> TRUE, msg |-> m]

IsPending(r) == "pending" \in DOMAIN r

\* _send_by_email without the check of the address
_send_by_email_unchecked(user, newsletter_data) ==
    LET email == Get(user, "email", None)
        message == [Subject |-> Get(newsletter_data, "subject",
                                    <<"Tu Newsletter Personalizado">>),
                    To |-> email,
                    plain |-> Get(newsletter_data, "text", <<>>),
                    html |-> Get(newsletter_data, "html", <<>>)]
    IN  IF ~CredentialsConfigured
        THEN Return([success |-> TRUE,
                     message |-> <<"Simulación de envío exitosa (modo desarrollo)">>,
                     channel |-> "email",
                     recipient |-> email,
                     subject |-> message.Subject])
        ELSE Pending(message)

\* lines 78-119: up to the point where the transport session is opened
_send_by_email(user, newsletter_data) ==
    LET email == Get(user, "email", None)
        message == [Subject |-> Get(newsletter_data, "subject",
                                    <<"Tu Newsletter Personalizado">>),
                    To |-> email,
                    plain |-> Get(newsletter_data, "text", <<>>),
                    html |-> Get(newsletter_data, "html", <<>>)]
    IN  IF ~TruthyStr(email)
        THEN Return([success |-> FALSE,
                     message |-> <<"No se proporcionó dirección de correo electrónico">>,
                     channel |-> "email"])
        ELSE IF ~CredentialsConfigured
        THEN Return([success |-> TRUE,
                     message |-> <<"Simulación de envío exitosa (modo desarrollo)">>,
                     channel |-> "email",
                     recipient |-> email,
                     subject |-> message.Subject])
        ELSE Pending(message)

\* lines 128-136: every transport step completed
_send_by_email_sent(message) ==
    Return([success |-> TRUE,
            message |-> <<"Newsletter enviado exitosamente">>,
            channel |-> "email",
            recipient |-> message.To,
            subject |-> message.Subject])

\* lines 137-139: a transport step raised; logged and raised again
_send_by_email_except(e) == Raise(e)

\* the WhatsApp channel handing the document to the mail channel
_send_by_whatsapp_dummy_as_mail(user, newsletter_data) ==
    _send_by_email(("email" :> Get(user, "phone", None)) @@ user, newsletter_data)

_send_by_whatsapp_dummy(user, newsletter_data) ==
    LET phone == Get(user, "phone", None)
    IN  IF ~TruthyStr(phone)
        THEN Return([success |-> FALSE,
                     message |-> <<"No se proporcionó número de teléfono">>,
                     channel |-> "whatsapp"])
        ELSE Return([success |-> TRUE,
                     message |-> <<"Simulación de envío por WhatsApp exitosa">>,
                     channel |-> "whatsapp",
                     recipient |-> phone])

_send_by_telegram_dummy(user, newsletter_data) ==
    LET telegram_id == Get(user, "telegram_id", None)
    IN  IF ~TruthyStr(telegram_id)
        THEN Return([success |-> FALSE,
                     message |-> <<"No se proporcionó ID de Telegram">>,
                     channel |-> "telegram"])
        ELSE Return([success |-> TRUE,
                     message |-> <<"Simulación de envío por Telegram exitosa">>,
                     channel |-> "telegram",
                     recipient |-> telegram_id])

\* an unregistered channel reported as delivered
send_newsletter_unknown_delivered(chan) ==
    Return([success |-> TRUE,
            message |-> <<"Canal no soportado: ", chan>>,
            channel |-> chan])

\* lines 47-53: the channel is not registered
send_newsletter_unknown(chan) ==
    Return([success |-> FALSE,
            message |-> <<"Canal no soportado: ", chan>>,
            channel |-> chan])

\* the channel call without the try: what the channel raises goes on
send_newsletter_no_try(chan, r) == r

\* lines 56-65: the try around the channel call; r is what the channel
\* implementation returned or raised
send_newsletter_try(chan, r) ==
    IF r.raised
    THEN Return([success |-> FALSE,
                 message |-> <<"Error al enviar: ", r.error>>,
                 channel |-> chan])
    ELSE r

\* send_newsletter returns to its caller (or raises past it)
SendReturns(r, tr) ==
    IF r.raised
    THEN Escapes /\ trace' = tr /\ send_result' = send_result
    ELSE /\ escaped' = escaped
         /\ send_result' = r.value
         /\ pc' = "sent"
         /\ trace' = Append(tr, Event("return", "send_newsletter"))

\* lines 34-58: registry lookup and the channel implementation, up to the
\* point where the mail channel opens the transport session
SendNewsletter ==
    /\ pc = "send"
    /\ IF channel \notin RegisteredChannels
       THEN SendReturns(send_newsletter_unknown(channel), trace) /\ msg' = msg
       ELSE LET r == CASE channel = "email" ->
                            _send_by_email(user_data, formatted_newsletter)
                       [] channel = "whatsapp" ->
                            _send_by_whatsapp_dummy(user_data, formatted_newsletter)
                       [] channel = "telegram" ->
                            _send_by_telegram_dummy(user_data, formatted_newsletter)
                tr == Append(trace, Event("channel", channel))
            IN  IF IsPending(r)
                THEN /\ msg' = r.msg
                     /\ pc' = "smtp"
                     /\ trace' = tr
                     /\ UNCHANGED <<send_result, escaped>>
                ELSE SendReturns(send_newsletter_try(channel, r), tr) /\ msg' = msg
    /\ UNCHANGED <<call, user_id, channel, mock_data, env, user_data, topics, fetch,
                   news_results, cond, summarized_news, fmt, formatted_newsletter,
                   smtp, newsletters, result, faults>>

\* lines 121-139: the next call on the SMTP session; it completes or raises
SmtpStep ==
    /\ pc = "smtp"
    /\ \E completes \in BOOLEAN :
        LET step == SmtpSteps[Len(smtp) + 1]
            tr == Append(trace, Event("smtp", step))
        IN  IF completes
            THEN /\ smtp' = Append(smtp, step)
                 /\ IF Len(smtp) + 1 = Len(SmtpSteps)
                    THEN SendReturns(send_newsletter_try(channel, _send_by_email_sent(msg)), tr)
                    ELSE /\ pc' = pc
                         /\ trace' = tr
                         /\ UNCHANGED <<send_result, escaped>>
            ELSE /\ smtp' = smtp
                 /\ SendReturns(send_newsletter_try(channel,
                                    _send_by_email_except(<<"smtp error in ", step>>)), tr)
    /\ UNCHANGED <<call, user_id, channel, mock_data, env, user_data, topics, fetch,
                   news_results, cond, summarized_news, fmt, formatted_newsletter,
                   msg, newsletters, result, faults>>

\* ------------------------------------- app/scripts/generate_newsletter.py
\* the guard without the placeholder test
ShouldSave_ignoring_mock == Get(send_result, "success", FALSE)

\* the guard without the test of the delivery outcome
ShouldSave_ignoring_outcome == ~mock_data

\* line 105: the guard of the persistence step
ShouldSave == ~mock_data /\ Get(send_result, "success", FALSE)

\* lines 117-124: the value returned at the end of the run
RunResult ==
    [success |-> Get(send_result, "success", FALSE),
     message |-> Get(send_result, "message", <<>>),
     user_id |-> user_id,
     channel |-> channel,
     topics |-> [i \in 1..Len(topics) |-> topics[i].name],
     newsletter_title |-> Get(formatted_newsletter, "title", <<>>)]

\* lines 105-124: the delivery record is inserted, then the run returns
SaveNewsletter ==
    /\ pc = "sent"
    /\ ShouldSave
    /\ LET row == NewsletterRow(user_id,
                                Get(formatted_newsletter, "title", <<"Newsletter">>),
                                DictKeys(summarized_news), channel)
       IN  \E response \in StorageOutcomes({<<>>, <<row>>}) :
             LET r == save_newsletter(response)
             IN  /\ trace' = Append(trace, Event("insert", row))
                            \o (IF response.ok THEN <<>>
                                ELSE << Event("print", <<"insert">>) >>)
                 /\ newsletters' = IF response.ok /\ response.value # <<>>
                                   THEN Append(newsletters, row) ELSE newsletters
                 /\ IF r.raised
                    THEN Escapes /\ result' = result
                    ELSE /\ escaped' = escaped
                         /\ result' = RunResult
                         /\ pc' = "done"
    /\ UNCHANGED <<call, user_id, channel, mock_data, env, user_data, topics, fetch,
                   news_results, cond, summarized_news, fmt, formatted_newsletter,
                   msg, smtp, send_result, faults>>

\* lines 105, 117-124: nothing to persist, the run returns
ReturnResult ==
    /\ pc = "sent"
    /\ ~ShouldSave
    /\ result' = RunResult
    /\ pc' = "done"
    /\ UNCHANGED <<call, user_id, channel, mock_data, env, user_data, topics, fetch,
                   news_results, cond, summarized_news, fmt, formatted_newsletter,
                   msg, smtp, send_result, newsletters, trace, escaped, faults>>

\* ------------------------------------------------------- specifications
\* one run of generate_and_send_newsletter
Next ==
    \/ LoadMockData
    \/ GetUserById
    \/ GetUserTopics
    \/ GetSearchTerms
    \/ FetchFromNewsApi
    \/ SummarizeEmptyTopic
    \/ GenerateTopicSummary
    \/ SummarizeArticle
    \/ GenerateTitle
    \/ GenerateIntroduction
    \/ RenderTemplate
    \/ SendNewsletter
    \/ SmtpStep
    \/ SaveNewsletter
    \/ ReturnResult

Spec == Init /\ [][Next]_vars

\* the most query strings _get_search_terms returns for one topic
MaxSearchTerms ==
    LET counts == { Len(_get_search_terms(<<"x">>, [ok |-> TRUE, value |-> t]).value) :
                        t \in TermTexts } \cup {1}
    IN  CHOOSE n \in counts : \A m \in counts : m <= n

\* the most topics a run works on
MostTopics == IF Len(MockTopics) > MaxTopics THEN Len(MockTopics) ELSE MaxTopics

\* steps of the run still to come, at most, from each position of the code:
\* the loops of lines 42-66 (news_fetcher.py), 36-64 (summarizer.py) and the
\* calls of lines 121-139 (sender.py) counted by their remaining iterations
FormatterStepsLeft == 5 + Len(SmtpSteps)
SummarizerStepsLeft(n) == FormatterStepsLeft + n * (1 + max_articles_per_topic)
FetcherStepsLeft(n) == SummarizerStepsLeft(Len(topics)) + n * (1 + MaxSearchTerms)
StepsLeft ==
    CASE pc = "start" ->
            3 + FormatterStepsLeft
              + MostTopics * (2 + max_articles_per_topic + MaxSearchTerms)
      [] pc = "get_topics" ->
            2 + FormatterStepsLeft
              + MostTopics * (2 + max_articles_per_topic + MaxSearchTerms)
      [] pc = "fetch_terms" -> FetcherStepsLeft(Len(topics) - fetch.ti + 1)
      [] pc = "fetch_search" ->
            FetcherStepsLeft(Len(topics) - fetch.ti)
              + (Len(fetch.search_terms) - fetch.si + 1)
      [] pc = "cond_topic" -> SummarizerStepsLeft(Len(news_results) - cond.ci + 1)
      [] pc = "cond_article" ->
            SummarizerStepsLeft(Len(news_results) - cond.ci)
              + (Len(news_results[cond.ci].v) - cond.ai + 1)
      [] pc = "fmt_title" -> FormatterStepsLeft
      [] pc = "fmt_intro" -> FormatterStepsLeft - 1
      [] pc = "fmt_render" -> FormatterStepsLeft - 2
      [] pc = "send" -> FormatterStepsLeft - 3
      [] pc = "smtp" -> 1 + Len(SmtpSteps) - Len(smtp)
      [] pc = "sent" -> 1
      [] OTHER -> 0

\* the position of the code has a next statement whose operands exist
HasNextStep ==
    CASE pc \in {"start", "get_topics", "fmt_title", "fmt_intro", "fmt_render",
                 "send", "sent"} -> TRUE
      [] pc = "fetch_terms" -> fetch.ti \in 1..Len(topics)
      [] pc = "fetch_search" ->
            fetch.ti \in 1..Len(topics) /\ fetch.si \in 1..Len(fetch.search_terms)
      [] pc = "cond_topic" -> cond.ci \in 1..Len(news_results)
      [] pc = "cond_article" ->
            /\ cond.ci \in 1..Len(news_results)
            /\ cond.ai \in 1..Len(news_results[cond.ci].v)
      [] pc = "smtp" -> Len(smtp) < Len(SmtpSteps)
      [] OTHER -> FALSE

\* rendered documents handed to the dispatcher: none of the keys, or all
Documents ==
    { <<>>,
      [html |-> << <<"h1", "T">> >>, text |-> << <<"T">> >>, title |-> <<"T">>,
       subject |-> <<"T", " - ", "04 de November de 2026">>] }

\* one call of SenderAgent.send_newsletter with any arguments, in any
\* process environment
InitSender ==
    /\ pc = "send"
    /\ user_id \in UserIds
    /\ channel \in ChannelNames \cup {"EMAIL", ""}
    /\ mock_data = TRUE
    /\ env \in Environments
    /\ user_data \in Profiles
    /\ formatted_newsletter \in Documents
    /\ topics = <<>>
    /\ fetch = FetchLocals /\ news_results = <<>>
    /\ cond = CondLocals /\ summarized_news = <<>>
    /\ fmt = FmtLocals
    /\ msg = <<>> /\ smtp = <<>> /\ send_result = <<>>
    /\ newsletters = <<>> /\ result = <<>>
    /\ trace = << Event("call", "send_newsletter") >>
    /\ escaped = FALSE /\ faults = 0
    /\ call = <<>>

NextSender ==
    \/ SendNewsletter
    \/ SmtpStep

SenderSpec == InitSender /\ [][NextSender]_vars

\* ------------------------------------------ summarize_news_by_topic alone
\* most topics in the dict handed to the condenser
MaxCondTopics == 2

\* item lists of a topic: up to the cap of the fetcher
ItemLists == { [i \in 1..n |-> RawArticle(i)] : n \in 0..max_articles_per_topic }

\* the dicts get_news_for_topics may hand over: distinct topic names, each
\* with an item list
NewsByTopic ==
    UNION { { d \in [1..n -> [k : TopicNames, v : ItemLists]] :
                \A i, j \in 1..n : i # j => d[i].k # d[j].k } :
            n \in 1..MaxCondTopics }

\* the generation calls summarize_news_by_topic makes for a dict
RECURSIVE CondCalls(_)
CondCalls(d) ==
    IF d = <<>> THEN 0
    ELSE (IF Head(d).v = <<>> THEN 0 ELSE 1 + Len(Head(d).v)) + CondCalls(Tail(d))

\* one call of summarize_news_by_topic on any dict; every generation call
\* of the stage may fail, so the count of failures starts as far below the
\* budget as the stage makes calls
InitSummarizer ==
    /\ pc = "cond_topic"
    /\ user_id \in UserIds
    /\ channel = "email"
    /\ mock_data = TRUE
    /\ env = EnvNothingSet
    /\ user_data = <<>> /\ topics = <<>>
    /\ fetch = FetchLocals
    /\ news_results \in NewsByTopic
    /\ cond = CondLocals /\ summarized_news = <<>>
    /\ fmt = FmtLocals /\ formatted_newsletter = <<>>
    /\ msg = <<>> /\ smtp = <<>> /\ send_result = <<>>
    /\ newsletters = <<>> /\ result = <<>>
    /\ trace = << Event("call", "summarize_news_by_topic") >>
    /\ escaped = FALSE
    /\ faults = MaxFaults - CondCalls(news_results)
    /\ call = <<>>

NextSummarizer ==
    \/ SummarizeEmptyTopic
    \/ GenerateTopicSummary
    \/ SummarizeArticle

SummarizerSpec == InitSummarizer /\ [][NextSummarizer]_vars

\* ------------------------------------------------ _summarize_article alone
\* longest response of the generation capability
MaxTextLen == 4

\* the markers, a word and a blank
ResponseTokens == {"Resumen:", "Relevancia:", "x", " "}

ResponseTexts == UNION { [1..n -> ResponseTokens] : n \in 0..MaxTextLen }

\* raw items: description absent, empty or filled
Articles ==
    { [title |-> <<"t">>, url |-> 1],
      [title |-> <<"t">>, description |-> <<>>, url |-> 1],
      [title |-> <<"t">>, description |-> <<"d">>, url |-> 1] }

\* one call of _summarize_article with any item, flag and response
InitArticle ==
    /\ pc = "call"
    /\ call \in [article : Articles, topic : {<<"IA">>},
                 include_relevance : BOOLEAN,
                 response : { [ok |-> TRUE, value |-> t] : t \in ResponseTexts }]
                \cup [article : Articles, topic : {<<"IA">>},
                      include_relevance : BOOLEAN, response : { [ok |-> FALSE] }]
    /\ user_id \in UserIds
    /\ channel = "email"
    /\ mock_data = TRUE
    /\ env = EnvNothingSet
    /\ Fresh

\* lines 117-215: the call returns the condensed item
CallSummarizeArticle ==
    /\ pc = "call"
    /\ LET r == _summarize_article(call.article, call.topic,
                                   call.include_relevance, call.response)
       IN  /\ call' = ("outcome" :> r) @@ call
           /\ pc' = "returned"
    /\ UNCHANGED <<user_id, channel, mock_data, env, user_data, topics, fetch,
                   news_results, cond, summarized_news, fmt, formatted_newsletter,
                   msg, smtp, send_result, newsletters, result, trace, escaped,
                   faults>>

ArticleSpec == InitArticle /\ [][CallSummarizeArticle]_vars

\* --------------------------------- _summarize_article, then the two bodies
\* formatter.py 199-204 and 405-415: the condensed item as the plain-text
\* body and the simple structured body write it
FormatArticle ==
    /\ pc = "returned"
    /\ call' = [text |-> TextArticle(1, call.outcome.value),
                html |-> HtmlArticle(call.outcome.value)] @@ call
    /\ pc' = "formatted"
    /\ UNCHANGED <<user_id, channel, mock_data, env, user_data, topics, fetch,
                   news_results, cond, summarized_news, fmt, formatted_newsletter,
                   msg, smtp, send_result, newsletters, result, trace, escaped,
                   faults>>

NextRelevance ==
    \/ CallSummarizeArticle
    \/ FormatArticle

RelevanceSpec == InitArticle /\ [][NextRelevance]_vars

\* ------------------------------------------------ format_newsletter alone
\* most items in a bundle handed to the renderer
MaxBundleItems == 2

\* the i-th condensed item of a bundle, with or without a relevance note
CondensedItems(i) ==
    { ("summary" :> <<"s">>) @@ RawArticle(i),
      ("relevance" :> <<"r">>) @@ ("summary" :> <<"s">>) @@ RawArticle(i) }

BundleItemLists ==
    UNION { { l \in [1..n -> UNION { CondensedItems(i) : i \in 1..n }] :
                \A i \in 1..n : l[i] \in CondensedItems(i) } :
            n \in 0..MaxBundleItems }

\* the dicts summarize_news_by_topic may hand over
SummarizedNews ==
    UNION { { d \in [1..n -> [k : TopicNames,
                              v : [summary : SummaryTexts, articles : BundleItemLists]]] :
                \A i, j \in 1..n : i # j => d[i].k # d[j].k } :
            n \in 0..MaxCondTopics }

\* one call of format_newsletter on any profile and dict; both generation
\* calls and the template may fail
InitFormatter ==
    /\ pc = "fmt_title"
    /\ user_id \in UserIds
    /\ channel = "email"
    /\ mock_data = TRUE
    /\ env = EnvNothingSet
    /\ user_data \in { [name |-> "Ana", email |-> "addr"], [email |-> "addr"] }
    /\ topics = <<>>
    /\ fetch = FetchLocals /\ news_results = <<>>
    /\ cond = CondLocals
    /\ summarized_news \in SummarizedNews
    /\ fmt = FmtLocals /\ formatted_newsletter = <<>>
    /\ msg = <<>> /\ smtp = <<>> /\ send_result = <<>>
    /\ newsletters = <<>> /\ result = <<>>
    /\ trace = << Event("call", "format_newsletter") >>
    /\ escaped = FALSE
    /\ faults = MaxFaults - 3
    /\ call = <<>>

NextFormatter ==
    \/ GenerateTitle
    \/ GenerateIntroduction
    \/ RenderTemplate

FormatterSpec == InitFormatter /\ [][NextFormatter]_vars

\* ---------------------------------------------- get_news_for_topics alone
\* most topics in the list handed to the fetcher
MaxFetchTopics == 2

\* topic lists with distinct names
FetchTopicLists ==
    UNION { { [i \in 1..n |-> [id |-> i, name |-> names[i], description |-> <<"desc">>]] :
                names \in { f \in [1..n -> TopicNames] :
                              \A i, j \in 1..n : i # j => f[i] # f[j] } } :
            n \in 1..MaxFetchTopics }

\* most external calls the fetcher makes for one topic: one generation call
\* and one search per term of TermTexts
FetchCallsPerTopic == 3

\* one call of get_news_for_topics on any list; every call may fail
InitFetcher ==
    /\ pc = "fetch_terms"
    /\ user_id \in UserIds
    /\ channel = "email"
    /\ mock_data = TRUE
    /\ env = EnvNothingSet
    /\ user_data = <<>>
    /\ topics \in FetchTopicLists
    /\ fetch = FetchLocals /\ news_results = <<>>
    /\ cond = CondLocals /\ summarized_news = <<>>
    /\ fmt = FmtLocals /\ formatted_newsletter = <<>>
    /\ msg = <<>> /\ smtp = <<>> /\ send_result = <<>>
    /\ newsletters = <<>> /\ result = <<>>
    /\ trace = << Event("call", "get_news_for_topics") >>
    /\ escaped = FALSE
    /\ faults = MaxFaults - FetchCallsPerTopic * Len(topics)
    /\ call = <<>>

NextFetcher ==
    \/ GetSearchTerms
    \/ FetchFromNewsApi

FetcherSpec == InitFetcher /\ [][NextFetcher]_vars

\* ------------------------------------------- format_newsletter, twice over
\* the caller runs the renderer again on the same profile and bundles, with
\* a fresh FormatterAgent; the first document is kept for comparison
FormatAgain ==
    /\ pc = "send"
    /\ call = <<>>
    /\ call' = [first |-> formatted_newsletter, fmt |-> fmt, returned |-> Len(trace)]
    /\ pc' = "fmt_title"
    /\ fmt' = FmtLocals
    /\ formatted_newsletter' = <<>>
    /\ faults' = MaxFaults - 3
    /\ trace' = Append(trace, Event("call", "format_newsletter"))
    /\ UNCHANGED <<user_id, channel, mock_data, env, user_data, topics, fetch,
                   news_results, cond, summarized_news, msg, smtp, send_result,
                   newsletters, result, escaped>>

\* two calls of format_newsletter on the placeholder recipient
InitRerun ==
    /\ InitFormatter
    /\ user_data = [name |-> "Ana", email |-> "addr"]

NextRerun ==
    \/ GenerateTitle
    \/ GenerateIntroduction
    \/ RenderTemplate
    \/ FormatAgain

RerunSpec == InitRerun /\ [][NextRerun]_vars

\* --------------------------------------------------- _generate_title alone
\* longest response of the title call
MaxTitleLen == 3

\* a quote of each kind, a letter and a blank
TitleTokens == {"\"", "'", "T", " "}

TitleResponses == UNION { [1..n -> TitleTokens] : n \in 0..MaxTitleLen }

\* the keys of a dict of bundles: any names, each once, in any order
TitleTopicNames == {<<"IA">>, <<"Clima">>, <<"Salud">>, <<"Cine">>}

TitleTopicLists ==
    UNION { { l \in [1..n -> TitleTopicNames] : \A i, j \in 1..n : i # j => l[i] # l[j] } :
            n \in 0..Cardinality(TitleTopicNames) }

\* one call of _generate_title with any names and any response
InitTitle ==
    /\ pc = "call"
    /\ call \in [user_name : {"Ana", "Usuario"}, topics : TitleTopicLists,
                 response : { [ok |-> TRUE, value |-> t] : t \in TitleResponses }]
                \cup [user_name : {"Ana", "Usuario"}, topics : TitleTopicLists,
                      response : { [ok |-> FALSE] }]
    /\ user_id \in UserIds
    /\ channel = "email"
    /\ mock_data = TRUE
    /\ env = EnvNothingSet
    /\ Fresh

\* lines 99-139: the call returns the title
CallGenerateTitle ==
    /\ pc = "call"
    /\ LET r == _generate_title(call.user_name, call.topics, call.response)
       IN  /\ call' = ("outcome" :> r) @@ call
           /\ pc' = "returned"
    /\ UNCHANGED <<user_id, channel, mock_data, env, user_data, topics, fetch,
                   news_results, cond, summarized_news, fmt, formatted_newsletter,
                   msg, smtp, send_result, newsletters, result, trace, escaped,
                   faults>>

TitleSpec == InitTitle /\ [][CallGenerateTitle]_vars

\* --------------------------------------------------------------- claims
IsStageEvent(e) == e[1] \in {"call", "return"}

\* the calls and returns of the stages, in the order they happened
StageLog == SelectSeq(trace, IsStageEvent)

IsPrefix(s, t) == Len(s) <= Len(t) /\ SubSeq(t, 1, Len(s)) = s

PipelineEvents ==
    << <<"call", "get_news_for_topics">>, <<"return", "get_news_for_topics">>,
       <<"call", "summarize_news_by_topic">>, <<"return", "summarize_news_by_topic">>,
       <<"call", "format_newsletter">>, <<"return", "format_newsletter">>,
       <<"call", "send_newsletter">>, <<"return", "send_newsletter">> >>

PassedChecks == user_data # <<>> /\ topics # <<>>

\* C1: a run that passed the recipient/topic checks calls Fetch, Condense,
\* Render, Dispatch in that order, each after the previous one returned and
\* none twice; when the run has returned, each has run exactly once.
C1_StagesOnceInOrder ==
    /\ IsPrefix(StageLog, PipelineEvents)
    /\ (PassedChecks => StageLog # <<>>)
    /\ (pc = "done" /\ PassedChecks => StageLog = PipelineEvents)

C1_Witness == pc = "done" /\ StageLog = PipelineEvents /\ faults > 0

C3_SendAlwaysReturnsOutcome ==
    /\ ~escaped
    /\ pc # "raised"
    /\ (pc = "sent" \/ ENABLED NextSender)
    /\ (pc = "sent" =>
          /\ {"success", "message", "channel"} \subseteq DOMAIN send_result
          /\ send_result.success \in BOOLEAN
          /\ send_result.channel = channel)
    /\ (Count(trace, "smtp") > Len(smtp) =>
          pc = "sent" /\ send_result.success = FALSE)

C3_Witness ==
    /\ pc = "sent"
    /\ Count(trace, "smtp") > Len(smtp)
    /\ send_result.success = FALSE
    /\ send_result.message[1] = "Error al enviar: "

\* C4: in a non-placeholder run, once storage has given no recipient (or
\* failed) or an empty topic list, the run has returned success = FALSE and
\* made no search, generation, rendering, dispatch or record-write call.
C4_RunLevelFailureHalts ==
    (/\ ~mock_data
     /\ \/ Count(trace, "storage") >= 1 /\ user_data = <<>>
        \/ Count(trace, "storage") >= 2 /\ topics = <<>>)
    => /\ pc = "done"
       /\ result.success = FALSE
       /\ \A kind \in {"call", "generation", "search", "template", "channel",
                       "smtp", "insert"} : Count(trace, kind) = 0
       /\ newsletters = <<>>

C4_Witness ==
    /\ ~mock_data
    /\ pc = "done"
    /\ Count(trace, "storage") = 2
    /\ user_data # <<>>
    /\ topics = <<>>

\* C5: a placeholder run never calls storage: no recipient read, no topic
\* read, no record write, whatever the delivery outcome.
C5_MockNeverTouchesStorage ==
    mock_data =>
       /\ Count(trace, "storage") = 0
       /\ Count(trace, "insert") = 0
       /\ newsletters = <<>>

C5_Witness == mock_data /\ pc = "done" /\ result.success = TRUE

RunResultFields ==
    {"success", "message", "user_id", "channel", "topics", "newsletter_title"}

\* C7: every result the run returns carries the six fields success, message,
\* user_id, channel, topics and newsletter_title.
C7_ResultHasSixFields ==
    pc = "done" => DOMAIN result = RunResultFields

\* C8: for a channel name outside the registry send_newsletter returns
\* success = FALSE at once and no channel implementation runs: no address
\* check, no message, no transport call.
C8_UnknownChannelFails ==
    channel \notin {"email", "whatsapp", "telegram"} =>
       /\ pc \in {"send", "sent"}
       /\ (pc = "sent" =>
             send_result.success = FALSE /\ send_result.channel = channel)
       /\ Count(trace, "channel") = 0
       /\ Count(trace, "smtp") = 0
       /\ msg = <<>>
       /\ smtp = <<>>

C8_Witness == pc = "sent" /\ channel = "fax" /\ send_result.success = FALSE

\* the profile key a channel needs
RequiredAddress(chan) ==
    CASE chan = "email" -> "email"
      [] chan = "whatsapp" -> "phone"
      [] chan = "telegram" -> "telegram_id"

\* the message that names the missing address of a channel
MissingAddressMessage(chan) ==
    CASE chan = "email" -> <<"No se proporcionó dirección de correo electrónico">>
      [] chan = "whatsapp" -> <<"No se proporcionó número de teléfono">>
      [] chan = "telegram" -> <<"No se proporcionó ID de Telegram">>

\* C9: when the profile lacks the address of the chosen channel (key
\* absent, None or empty), the outcome is success = FALSE with the channel's
\* identifier and the message naming the address, and nothing is attempted:
\* no message is built and no transport call is made, whether or not the
\* mail credentials are configured.
C9_MissingAddressFails ==
    (/\ channel \in {"email", "whatsapp", "telegram"}
     /\ Get(user_data, RequiredAddress(channel), None) \in {None, ""})
    => /\ pc \in {"send", "sent"}
       /\ Count(trace, "smtp") = 0
       /\ smtp = <<>>
       /\ msg = <<>>
       /\ (pc = "sent" =>
             /\ send_result.success = FALSE
             /\ send_result.channel = channel
             /\ send_result.message = MissingAddressMessage(channel))

C9_Witness ==
    /\ pc = "sent"
    /\ channel = "email"
    /\ \A n \in EnvNames : env[n] \notin {Unset, "", "0"}
    /\ Get(user_data, "email", None) = ""
    /\ send_result.success = FALSE

HasMailAddress == Get(user_data, "email", None) \notin {None, ""}

\* the simulated delivery: success, marked as simulated, no transport call
SimulatedDelivery ==
    /\ pc \in {"send", "sent"}
    /\ Count(trace, "smtp") = 0
    /\ smtp = <<>>
    /\ (pc = "sent" =>
          /\ send_result.success = TRUE
          /\ send_result.message = <<"Simulación de envío exitosa (modo desarrollo)">>)

\* C10 as stated: when any of host, port, username, password is not
\* configured and the recipient has a mail address, the mail channel
\* simulates the delivery and opens no transport session.
C10_AnyCredentialNotConfigured ==
    (/\ channel = "email"
     /\ HasMailAddress
     /\ \E n \in EnvNames : env[n] \in {Unset, ""})
    => SimulatedDelivery

\* C10 amended: when the host, the username or the password is not
\* configured (unset or empty), or the port is configured as 0, and the
\* recipient has a mail address, the mail channel simulates the delivery
\* and opens no transport session.
C10_CredentialMissingSimulates ==
    (/\ channel = "email"
     /\ HasMailAddress
     /\ \/ \E n \in {"EMAIL_HOST", "EMAIL_USERNAME", "EMAIL_PASSWORD"} :
              env[n] \in {Unset, ""}
        \/ env["EMAIL_PORT"] = "0")
    => SimulatedDelivery

C10_Witness ==
    /\ pc = "sent"
    /\ channel = "email"
    /\ HasMailAddress
    /\ env["EMAIL_HOST"] = "smtp.example.com"
    /\ env["EMAIL_PORT"] = "25"
    /\ env["EMAIL_USERNAME"] = "secret"
    /\ env["EMAIL_PASSWORD"] = Unset
    /\ send_result.success = TRUE

\* the argument of every event of a kind, in the order they happened
RECURSIVE EventArgs(_, _)
EventArgs(log, kind) ==
    IF log = <<>> THEN <<>>
    ELSE (IF Head(log)[1] = kind THEN <<Head(log)[2]>> ELSE <<>>)
         \o EventArgs(Tail(log), kind)

\* open, secure, authenticate, transmit, close
TransportOrder == <<"connect", "starttls", "login", "send_message", "quit">>

\* C11: with the four credentials configured and a mail address present,
\* the mail channel calls the session in the order connect, starttls, login,
\* send_message, quit, each after the previous one completed; the outcome
\* is success = TRUE only when all five completed, and when a call raises
\* the outcome of send_newsletter is success = FALSE, channel email, with a
\* message that carries the text of the error raised.
C11_TransportInOrder ==
    (channel = "email" /\ HasMailAddress /\ CredentialsConfigured) =>
       /\ IsPrefix(smtp, TransportOrder)
       /\ IsPrefix(EventArgs(trace, "smtp"), TransportOrder)
       /\ Len(EventArgs(trace, "smtp")) \in {Len(smtp), Len(smtp) + 1}
       /\ (pc = "smtp" => EventArgs(trace, "smtp") = smtp /\ smtp # TransportOrder)
       /\ (pc = "sent" =>
             /\ send_result.channel = "email"
             /\ send_result.success = (smtp = TransportOrder)
             /\ (send_result.success =>
                   send_result.message = <<"Newsletter enviado exitosamente">>)
             /\ (~send_result.success =>
                   /\ EventArgs(trace, "smtp") # smtp
                   /\ send_result.message =
                        <<"Error al enviar: ",
                          <<"smtp error in ", TransportOrder[Len(smtp) + 1]>> >>))

C11_Witness ==
    /\ pc = "sent"
    /\ channel = "email"
    /\ smtp = TransportOrder
    /\ send_result.success = TRUE

\* C12: the whatsapp and telegram channels, when the profile holds the
\* address they need, return success = TRUE with their own identifier and
\* the message of a simulated delivery, and make no session call and build
\* no message, in every environment and for every document.
C12_DummyChannelsSimulate ==
    (/\ channel \in {"whatsapp", "telegram"}
     /\ Get(user_data, RequiredAddress(channel), None) \notin {None, ""})
    => /\ pc \in {"send", "sent"}
       /\ Count(trace, "smtp") = 0
       /\ smtp = <<>>
       /\ msg = <<>>
       /\ (pc = "sent" =>
             /\ send_result.success = TRUE
             /\ send_result.channel = channel
             /\ send_result.message =
                  (IF channel = "whatsapp"
                   THEN <<"Simulación de envío por WhatsApp exitosa">>
                   ELSE <<"Simulación de envío por Telegram exitosa">>))

C12_Witness ==
    /\ pc = "sent"
    /\ channel = "whatsapp"
    /\ \A n \in EnvNames : env[n] \notin {Unset, "", "0"}
    /\ formatted_newsletter # <<>>
    /\ send_result.success = TRUE

\* C13: a topic whose item list is empty gets, once the loop has passed it,
\* a bundle with the canned synopsis (a non-empty text) and no items, and at
\* no time is a generation call made for it, neither for its synopsis nor
\* for an item.
C13_EmptyTopicCanned ==
    \A i \in 1..Len(news_results) :
       news_results[i].v = <<>> =>
          /\ \A n \in 1..Len(trace) :
                ~(trace[n][1] = "generation" /\ trace[n][2][2] = news_results[i].k)
          /\ (i < cond.ci =>
                \E b \in 1..Len(summarized_news) :
                   /\ summarized_news[b].k = news_results[i].k
                   /\ summarized_news[b].v.summary # <<>>
                   /\ summarized_news[b].v.summary =
                        <<"No se encontraron noticias para el tópico '">>
                        \o news_results[i].k \o <<"'.">>
                   /\ summarized_news[b].v.articles = <<>>)

C13_Witness ==
    /\ pc = "fmt_title"
    /\ Len(news_results) = 2
    /\ news_results[1].v = <<>>
    /\ news_results[2].v # <<>>
    /\ Len(summarized_news) = 2

\* C14: when the generation call of an item fails, the condensed item's
\* synopsis is the item's description, or "Resumen no disponible." when the
\* description is empty or absent, and with relevance requested its
\* relevance note is "Información no disponible.".
C14_FallbackOnFailure ==
    (pc = "returned" /\ ~call.response.ok) =>
       /\ ~call.outcome.raised
       /\ call.outcome.value.summary =
            (IF "description" \in DOMAIN call.article
                /\ call.article.description # <<>>
             THEN call.article.description
             ELSE <<"Resumen no disponible.">>)
       /\ (call.include_relevance =>
             /\ "relevance" \in DOMAIN call.outcome.value
             /\ call.outcome.value.relevance = <<"Información no disponible.">>)

C14_Witness ==
    /\ pc = "returned"
    /\ ~call.response.ok
    /\ call.include_relevance
    /\ "description" \in DOMAIN call.article
    /\ call.article.description = <<"d">>
    /\ call.outcome.value.summary = <<"d">>

\* C15: whatever generation calls fail, nothing is raised, the bundles
\* stored so far are those of the topics passed so far, in the order of the
\* input, each with one condensed item per raw item in the order of the raw
\* items; when the stage has returned every input topic is a key of the
\* output.
C15_ItemsKeptInOrder ==
    /\ ~escaped
    /\ pc # "raised"
    /\ DictKeys(summarized_news) = SubSeq(DictKeys(news_results), 1, cond.ci - 1)
    /\ \A i \in 1..Len(summarized_news) :
          /\ Len(summarized_news[i].v.articles) = Len(news_results[i].v)
          /\ \A j \in 1..Len(news_results[i].v) :
                /\ summarized_news[i].v.articles[j].url = news_results[i].v[j].url
                /\ "summary" \in DOMAIN summarized_news[i].v.articles[j]
    /\ (pc = "cond_article" =>
          /\ Len(cond.articles) = cond.ai - 1
          /\ \A j \in 1..Len(cond.articles) :
                cond.articles[j].url = news_results[cond.ci].v[j].url)
    /\ (pc = "fmt_title" => DictKeys(summarized_news) = DictKeys(news_results))

C15_Witness ==
    /\ pc = "fmt_title"
    /\ Len(news_results) = 2
    /\ Len(news_results[1].v) >= 2
    /\ news_results[2].v # <<>>
    /\ faults = MaxFaults
    /\ Len(summarized_news[1].v.articles) = Len(news_results[1].v)

IsBlank(t) == \A i \in 1..Len(t) : t[i] \in {" ", "\n"}

\* t is s without its leading and its trailing blanks
IsTrimOf(t, s) ==
    /\ (t # <<>> => ~IsBlank(<<t[1]>>) /\ ~IsBlank(<<t[Len(t)]>>))
    /\ \E a, b \in 0..Len(s) :
          /\ a + b <= Len(s)
          /\ t = SubSeq(s, a + 1, Len(s) - b)
          /\ IsBlank(SubSeq(s, 1, a))
          /\ IsBlank(SubSeq(s, Len(s) - b + 1, Len(s)))

Has(s, tok) == \E p \in 1..Len(s) : s[p] = tok

\* the first place of a token in a text that has it
FirstAt(s, tok) == CHOOSE p \in 1..Len(s) : s[p] = tok /\ \A q \in 1..(p - 1) : s[q] # tok

\* the text after the first place of a token
After(s, tok) == SubSeq(s, FirstAt(s, tok) + 1, Len(s))

\* the text before the first place of a token
Before(s, tok) == SubSeq(s, 1, FirstAt(s, tok) - 1)

\* C16: parsing of an answered call (blanks around a part are dropped).
\* With relevance requested and the marker "Relevancia:" in the response,
\* the note is the text after the first marker and the synopsis the text
\* before it, less everything up to and including the first "Resumen:"
\* when that is there; without the marker the whole response is the
\* synopsis; with relevance not requested the whole response is the
\* synopsis and no note is set.
C16_ResponseParsing ==
    (pc = "returned" /\ call.response.ok) =>
       LET text == call.response.value
           item == call.outcome.value
       IN  /\ ~call.outcome.raised
           /\ IF call.include_relevance /\ Has(text, "Relevancia:")
              THEN /\ IsTrimOf(Get(item, "relevance", <<>>), After(text, "Relevancia:"))
                   /\ IF Has(Before(text, "Relevancia:"), "Resumen:")
                      THEN IsTrimOf(item.summary,
                                    After(Before(text, "Relevancia:"), "Resumen:"))
                      ELSE IsTrimOf(item.summary, Before(text, "Relevancia:"))
              ELSE /\ IsTrimOf(item.summary, text)
                   /\ "relevance" \notin DOMAIN item

C16_Witness ==
    /\ pc = "returned"
    /\ call.response.ok
    /\ call.include_relevance
    /\ call.response.value = <<"Resumen:", "x", "Relevancia:", "x">>
    /\ call.outcome.value.summary = <<"x">>
    /\ call.outcome.value.relevance = <<"x">>

\* an element of a structured body
HasElement(html, el) == \E n \in 1..Len(html) : html[n][1] = el[1] /\ html[n] = el

\* the structured body names the title, the date, the greeting, every topic
\* and every item of the input
CoversInput(html) ==
    /\ HasElement(html, <<"h1">> \o formatted_newsletter.title)
    /\ \E d \in Dates : HasElement(html, <<"p", d>>)
    /\ HasElement(html, <<"p", "Hola ", Get(user_data, "name", "Usuario"), ",">>)
    /\ HasElement(html, <<"p">> \o fmt.introduction)
    /\ \A i \in 1..Len(summarized_news) :
          /\ HasElement(html, <<"h2">> \o summarized_news[i].k)
          /\ HasElement(html, <<"p", "em">> \o summarized_news[i].v.summary)
          /\ \A j \in 1..Len(summarized_news[i].v.articles) :
                /\ HasElement(html, <<"h3">> \o summarized_news[i].v.articles[j].title)
                /\ HasElement(html, <<"p">> \o summarized_news[i].v.articles[j].summary)
                /\ \E n \in 1..Len(html) :
                      /\ html[n][1] = "p"
                      /\ Len(html[n]) = 6
                      /\ html[n][2] = "Fuente: "
                      /\ html[n][6] = summarized_news[i].v.articles[j].url

\* C17: format_newsletter raises nothing and the document it returns has a
\* non-empty structured body and a non-empty plain-text body, whatever
\* fails; the structured body is the rendering of the template or, when the
\* template raised, the assembled body with the title, the date, the
\* greeting and every topic and item of the input.
C17_BodiesNeverEmpty ==
    /\ ~escaped
    /\ pc \in {"fmt_title", "fmt_intro", "fmt_render", "send"}
    /\ (pc = "send" =>
          /\ formatted_newsletter.html # <<>>
          /\ formatted_newsletter.text # <<>>
          /\ \A n \in 1..Len(formatted_newsletter.html) :
                formatted_newsletter.html[n] # <<>>
          /\ \/ /\ formatted_newsletter.html[1][1] = "template"
                /\ faults < MaxFaults
             \/ /\ formatted_newsletter.html[1][1] # "template"
                /\ faults > MaxFaults - 3
                /\ CoversInput(formatted_newsletter.html))

C17_Witness ==
    /\ pc = "send"
    /\ faults = MaxFaults
    /\ Len(summarized_news) = 2
    /\ summarized_news[1].v.articles # <<>>
    /\ formatted_newsletter.html # <<>>
    /\ formatted_newsletter.html[1][1] = "title"
    /\ formatted_newsletter.text # <<>>

\* the queries of the search requests issued for a topic, in order
RECURSIVE QueriesOf(_, _)
QueriesOf(log, topic_name) ==
    IF log = <<>> THEN <<>>
    ELSE (IF Head(log)[1] = "search" /\ Head(log)[2][1] = topic_name
          THEN <<Head(log)[2][2]>> ELSE <<>>)
         \o QueriesOf(Tail(log), topic_name)

\* the queries of the search requests of a topic that failed, in order
RECURSIVE FailedQueriesOf(_, _)
FailedQueriesOf(log, topic_name) ==
    IF log = <<>> THEN <<>>
    ELSE (IF /\ Head(log)[1] = "print"
             /\ Head(log)[2][1] = "search"
             /\ Head(log)[2][2] = topic_name
          THEN <<Head(log)[2][3]>> ELSE <<>>)
         \o FailedQueriesOf(Tail(log), topic_name)

\* the query-generation call of a topic failed
TermsFailed(topic_name) ==
    \E n \in 1..Len(trace) :
       trace[n][1] = "print" /\ trace[n][2] = <<"search_terms", topic_name>>

\* the names of the topics the loop of the fetcher has passed
PassedTopicNames == [i \in 1..(fetch.ti - 1) |-> topics[i].name]

\* the list stored for a topic name
StoredFor(topic_name) ==
    news_results[CHOOSE b \in 1..Len(news_results) : news_results[b].k = topic_name].v

\* C18: no topic is ever stored with more than 3 items, and a search request
\* is issued only while the items gathered for the topic are fewer than 3:
\* once the cap is reached the remaining queries of the topic are not sent.
C18_CapPerTopic ==
    /\ [](\A b \in 1..Len(news_results) : Len(news_results[b].v) <= 3)
    /\ [][Count(trace', "search") > Count(trace, "search")
            => Len(fetch.news_items) < 3]_vars

C18_Witness ==
    /\ pc = "cond_topic"
    /\ \E b \in 1..Len(news_results) :
          /\ Len(news_results[b].v) = 3
          /\ ~TermsFailed(news_results[b].k)
          /\ Len(QueriesOf(trace, news_results[b].k)) = 1

\* C19: when the query-generation call of a topic fails, the only search
\* request issued for the topic has the topic name as its query, exactly
\* one once the topic is passed, and the topic has an entry in the output;
\* nothing is raised and every topic of the input has an entry at the end.
C19_TopicNameFallback ==
    /\ ~escaped
    /\ pc # "raised"
    /\ \A i \in 1..Len(topics) :
          TermsFailed(topics[i].name) =>
             /\ IsPrefix(QueriesOf(trace, topics[i].name), << topics[i].name >>)
             /\ (i < fetch.ti =>
                   /\ QueriesOf(trace, topics[i].name) = << topics[i].name >>
                   /\ \E b \in 1..Len(news_results) : news_results[b].k = topics[i].name)
    /\ (pc = "cond_topic" =>
          DictKeys(news_results) = [i \in 1..Len(topics) |-> topics[i].name])

C19_Witness ==
    /\ pc = "cond_topic"
    /\ Len(topics) = 2
    /\ TermsFailed(topics[1].name)
    /\ ~TermsFailed(topics[2].name)
    /\ QueriesOf(trace, topics[1].name) = << topics[1].name >>
    /\ StoredFor(topics[1].name) # <<>>
    /\ StoredFor(topics[2].name) # <<>>

\* C20: a failing search request adds no item, and the loop goes on: no
\* stored or gathered item comes from a failed request; a passed topic
\* either reached the cap or had every one of its queries sent; every
\* passed topic has an entry, in the order of the input; the entry holds
\* only items of the requests sent for the topic, at most 5 for each one
\* that did not fail, so it is empty when they all failed; nothing is raised.
C20_FailedSearchSkipped ==
    /\ ~escaped
    /\ pc # "raised"
    /\ DictKeys(news_results) = PassedTopicNames
    /\ \A b \in 1..Len(news_results) :
          /\ \A j \in 1..Len(news_results[b].v) :
                \A n \in 1..Len(FailedQueriesOf(trace, news_results[b].k)) :
                   FailedQueriesOf(trace, news_results[b].k)[n]
                     # news_results[b].v[j].search_term
          /\ (FailedQueriesOf(trace, news_results[b].k)
                = QueriesOf(trace, news_results[b].k)
              => news_results[b].v = <<>>)
          /\ Len(news_results[b].v)
                <= 5 * (Len(QueriesOf(trace, news_results[b].k))
                          - Len(FailedQueriesOf(trace, news_results[b].k)))
          /\ \A j \in 1..Len(news_results[b].v) :
                \E n \in 1..Len(QueriesOf(trace, news_results[b].k)) :
                   QueriesOf(trace, news_results[b].k)[n]
                     = news_results[b].v[j].search_term
    /\ (pc = "fetch_search" =>
          \A j \in 1..Len(fetch.news_items) :
             \A n \in 1..Len(FailedQueriesOf(trace, topics[fetch.ti].name)) :
                FailedQueriesOf(trace, topics[fetch.ti].name)[n]
                  # fetch.news_items[j].search_term)
    /\ (pc \in {"fetch_terms", "cond_topic"} /\ fetch.ti > 1 =>
          \/ Len(StoredFor(topics[fetch.ti - 1].name)) = 3
          \/ QueriesOf(trace, topics[fetch.ti - 1].name) = fetch.search_terms)
    /\ (pc = "cond_topic" => fetch.ti = Len(topics) + 1)

C20_Witness ==
    /\ pc = "cond_topic"
    /\ Len(topics) = 2
    /\ Len(QueriesOf(trace, topics[1].name)) = 2
    /\ Len(FailedQueriesOf(trace, topics[1].name)) = 1
    /\ FailedQueriesOf(trace, topics[1].name)[1] = QueriesOf(trace, topics[1].name)[1]
    /\ StoredFor(topics[1].name) # <<>>
    /\ FailedQueriesOf(trace, topics[2].name) = QueriesOf(trace, topics[2].name)
    /\ StoredFor(topics[2].name) = <<>>

\* the events of a log that are not readings of the clock
IsCallEvent(e) == e[1] # "clock"

\* the logs of the two calls of the renderer, once both have returned
BothRunsDone == pc = "send" /\ call # <<>>
FirstRunLog == SubSeq(trace, 1, call.returned)
SecondRunLog == SubSeq(trace, call.returned + 1, Len(trace))

\* both calls made the same external calls with the same outcomes, and got
\* the same title and opening from them
SameResponses ==
    /\ SelectSeq(FirstRunLog, IsCallEvent) = SelectSeq(SecondRunLog, IsCallEvent)
    /\ fmt = call.fmt

\* C21 as stated: two runs on the same inputs with the same responses of
\* the generation capability give the same plain-text body.
C21_SameResponsesSameText ==
    BothRunsDone /\ SameResponses => formatted_newsletter.text = call.first.text

\* C21, amended: two runs on the same inputs with the same responses give
\* plain-text bodies that differ at most in the line of the date, which
\* carries the date each run read for its context; the bodies are the same
\* when that reading is the same, whatever the clock read for the subject.
C21_SameDateSameText ==
    BothRunsDone /\ SameResponses =>
       /\ Len(formatted_newsletter.text) = Len(call.first.text)
       /\ \A n \in 1..Len(call.first.text) :
             n # 2 => formatted_newsletter.text[n] = call.first.text[n]
       /\ call.first.text[2][2] = EventArgs(FirstRunLog, "clock")[1]
       /\ formatted_newsletter.text[2][2] = EventArgs(SecondRunLog, "clock")[1]
       /\ (EventArgs(FirstRunLog, "clock")[1] = EventArgs(SecondRunLog, "clock")[1]
             => formatted_newsletter.text = call.first.text)

C21_Witness ==
    /\ BothRunsDone
    /\ SameResponses
    /\ summarized_news # <<>>
    /\ EventArgs(FirstRunLog, "clock") = <<"04 de November de 2026", "04 de November de 2026">>
    /\ EventArgs(SecondRunLog, "clock") = <<"04 de November de 2026", "05 de November de 2026">>
    /\ formatted_newsletter.subject # call.first.subject
    /\ formatted_newsletter.text = call.first.text

\* a placeholder run through a registered channel in which no generation,
\* search, template or transport call failed
CleanMockRun ==
    /\ pc = "done"
    /\ mock_data
    /\ channel \in {"email", "whatsapp", "telegram"}
    /\ faults = 0
    /\ EventArgs(trace, "smtp") = smtp
    /\ \E b \in 1..Len(news_results) : news_results[b].v # <<>>

\* C22: a placeholder run in which fetch found an item and every external
\* call succeeded returns success, the names of the topics of the run in
\* order, and a title that is not empty.
C22_CleanMockRunHasTitle ==
    CleanMockRun =>
       /\ result.success = TRUE
       /\ result.topics = << <<"Inteligencia Artificial">>, <<"Cambio Climático">> >>
       /\ result.newsletter_title # <<>>

\* C23: when the title call fails, the title is the fixed prefix followed
\* by the first three topic names in the order of the bundles, separated by
\* a comma and a blank, and by the suffix " y más" exactly when there are
\* more than three names; nothing else of the call enters the title.
C23_FallbackTitleFromNames ==
    pc = "returned" /\ ~call.response.ok =>
       /\ ~call.outcome.raised
       /\ LET names == call.topics
              n == Len(names)
              listed ==
                 CASE n = 0 -> <<>>
                   [] n = 1 -> names[1]
                   [] n = 2 -> names[1] \o <<", ">> \o names[2]
                   [] OTHER -> names[1] \o <<", ">> \o names[2] \o <<", ">> \o names[3]
          IN  call.outcome.value =
                 <<"Tu Resumen de Noticias: ">> \o listed
                 \o (IF n > 3 THEN <<" y más">> ELSE <<>>)

C23_Witness ==
    /\ pc = "returned"
    /\ ~call.response.ok
    /\ call.topics = << <<"Cine">>, <<"IA">>, <<"Salud">>, <<"Clima">> >>
    /\ call.outcome.value =
          <<"Tu Resumen de Noticias: ", "Cine", ", ", "IA", ", ", "Salud", " y más">>

\* t is s without the longest run of the characters at each of its ends
IsCutOf(t, s, chars) ==
    \E a \in 1..(Len(s) + 1) : \E b \in 0..Len(s) :
       /\ t = SubSeq(s, a, b)
       /\ \A i \in 1..(a - 1) : s[i] \in chars
       /\ \A i \in (b + 1)..Len(s) : s[i] \in chars
       /\ (t = <<>> \/ (t[1] \notin chars /\ t[Len(t)] \notin chars))

NoRepeat(s) == \A i, j \in 1..Len(s) : i # j => s[i] # s[j]

\* the unit of work a generation call was made for exists: a topic of the
\* run, a topic with items, an item of a topic, the title, the opening
GenerationUnitExists(arg) ==
    CASE arg[1] = "search_terms" -> \E i \in 1..Len(topics) : topics[i].name = arg[2]
      [] arg[1] = "topic_summary" ->
            \E b \in 1..Len(news_results) :
               news_results[b].k = arg[2] /\ news_results[b].v # <<>>
      [] arg[1] = "article" ->
            \E b \in 1..Len(news_results) :
               news_results[b].k = arg[2] /\ arg[3] \in 1..Len(news_results[b].v)
      [] OTHER -> arg \in { <<"title">>, <<"introduction">> }

\* C24: within one run no external call is made twice for the same unit of
\* work: every generation call is for a topic, a topic with items, an item,
\* the title or the opening, and none is repeated; the search requests of
\* a topic are its query strings in order, each at most once; the session
\* calls are a prefix of open, secure, authenticate, transmit, close, so
\* there is at most one session and no step is made again after it failed;
\* the template is rendered once, the channel called once, the recipient
\* and the topics read once and at most one record written.
C24_NoRetry ==
    /\ LET generations == EventArgs(trace, "generation")
       IN  /\ NoRepeat(generations)
           /\ \A n \in 1..Len(generations) : GenerationUnitExists(generations[n])
    /\ \A i \in 1..Len(topics) :
          IsPrefix(QueriesOf(trace, topics[i].name),
                   IF TermsFailed(topics[i].name) THEN << topics[i].name >>
                   ELSE << <<"a">>, <<"b">> >>)
    /\ Count(trace, "search") <= 2 * Len(topics)
    /\ IsPrefix(EventArgs(trace, "smtp"), TransportOrder)
    /\ NoRepeat(EventArgs(trace, "storage"))
    /\ Count(trace, "template") <= 1
    /\ Count(trace, "channel") <= 1
    /\ Count(trace, "insert") <= 1
    /\ Count(trace, "print") <= Count(trace, "generation") + Count(trace, "search")
                                  + Count(trace, "template") + Count(trace, "insert")

C24_Witness ==
    /\ pc = "done"
    /\ ~mock_data
    /\ faults = 1
    /\ Count(trace, "generation") = 2 * Len(topics) + Count(trace, "search") + 2
    /\ EventArgs(trace, "smtp") = <<"connect", "starttls", "login">>
    /\ smtp = <<"connect", "starttls">>
    /\ result.success = FALSE

\* C26: once the mail channel has returned, a transport session that was
\* opened has been closed, whether the steps after the opening completed or
\* one of them failed.
C26_OpenedSessionClosed ==
    pc \in {"sent", "done"} /\ (\E n \in 1..Len(smtp) : smtp[n] = "connect")
       => \E n \in 1..Len(smtp) : smtp[n] = "quit"

\* C27: whenever the transmission of the message completed, the outcome of
\* the mail channel is a success and, in a run that is not a placeholder
\* run, the delivery record is written; so a failed outcome implies that
\* the message was not transmitted.
C27_TransmittedMeansSuccess ==
    pc = "done" /\ (\E n \in 1..Len(smtp) : smtp[n] = "send_message") =>
       /\ send_result.success = TRUE
       /\ result.success = TRUE
       /\ (~mock_data => Count(trace, "insert") = 1)

\* C28: in a run that is not a placeholder run and whose delivery outcome
\* is a success, the insert of the delivery record is requested once and
\* the run returns success and the message of the outcome, whether the
\* insert stores the row, gives nothing or fails; nothing is raised.
C28_RecordWriteFailureIgnored ==
    /\ (~mock_data /\ Get(send_result, "success", FALSE) = TRUE =>
          /\ pc \in {"sent", "done"}
          /\ ~escaped
          /\ Count(trace, "insert") = (IF pc = "done" THEN 1 ELSE 0))
    /\ (Count(trace, "insert") > 0 =>
          /\ pc = "done"
          /\ ~escaped
          /\ result.success = TRUE
          /\ result.message = send_result.message
          /\ result.newsletter_title = formatted_newsletter.title)

C28_Witness ==
    /\ pc = "done"
    /\ ~mock_data
    /\ Count(trace, "insert") = 1
    /\ trace[Len(trace)] = <<"print", <<"insert">> >>
    /\ newsletters = <<>>
    /\ result.success = TRUE
    /\ result.message = <<"Newsletter enviado exitosamente">>

\* the response gives no relevance note: it has no marker, or nothing but
\* blanks after the first one
GivesNoNote(text) == ~Has(text, "Relevancia:") \/ IsBlank(After(text, "Relevancia:"))

\* C29: with relevance annotation enabled, the condensed item has a
\* relevance note, not empty, unless the call succeeded with a response
\* that has no marker or only blanks after it; then the item has no
\* relevance field, and neither the plain-text body nor the simple
\* structured body has a relevance line for it (they have one otherwise).
C29_RelevanceNoteOrNoField ==
    pc \in {"returned", "formatted"} /\ call.include_relevance =>
       /\ ~call.outcome.raised
       /\ ("relevance" \in DOMAIN call.outcome.value
             <=> ~(call.response.ok /\ GivesNoNote(call.response.value)))
       /\ ("relevance" \in DOMAIN call.outcome.value
             => ~IsBlank(call.outcome.value.relevance))
       /\ (pc = "formatted" =>
             IF "relevance" \in DOMAIN call.outcome.value
             THEN /\ Len(call.text) = 5
                  /\ call.text[3] = <<"   Relevancia: ">> \o call.outcome.value.relevance
                  /\ call.text[4][1] = "   Fuente: "
                  /\ Len(call.html) = 4
                  /\ call.html[3] = <<"p", "Relevancia:">> \o call.outcome.value.relevance
                  /\ call.html[4][2] = "Fuente: "
             ELSE /\ Len(call.text) = 4
                  /\ call.text[3][1] = "   Fuente: "
                  /\ Len(call.html) = 3
                  /\ call.html[3][2] = "Fuente: ")

C29_Witness ==
    /\ pc = "formatted"
    /\ call.include_relevance
    /\ call.response.ok
    /\ call.response.value = <<"x", "Relevancia:", " ">>
    /\ "relevance" \notin DOMAIN call.outcome.value
    /\ Len(call.text) = 4
    /\ Len(call.html) = 3

\* the items of all the topics of a dict
RECURSIVE TotalItems(_)
TotalItems(d) == IF d = <<>> THEN 0 ELSE Len(Head(d).v) + TotalItems(Tail(d))

\* C30: when every external call returns or raises, the run ends with a
\* result: every step lowers the number of steps left, a run that has not
\* returned always has a next step, and a run that has returned has a result;
\* the search requests made for a topic are never more than the query strings
\* returned for it, and the generation calls never more than two for each
\* topic, one for each fetched item, and two.
C30_TerminatesWithinBounds ==
    /\ [][StepsLeft' < StepsLeft]_vars
    /\ [](StepsLeft \in Nat)
    /\ [](pc # "done" => HasNextStep)
    /\ [](pc = "done" => "success" \in DOMAIN result)
    /\ [](pc = "fetch_search" =>
            /\ Len(QueriesOf(trace, topics[fetch.ti].name)) = fetch.si - 1
            /\ fetch.si <= Len(fetch.search_terms))
    /\ [](pc # "fetch_search" /\ fetch.ti > 1 =>
            Len(QueriesOf(trace, topics[fetch.ti - 1].name)) <= Len(fetch.search_terms))
    /\ [](Count(trace, "search") <= MaxSearchTerms * Len(topics))
    /\ [](Count(trace, "generation")
            <= 2 * Len(topics) + TotalItems(news_results) + 2)

C30_Witness ==
    /\ pc = "done"
    /\ "user_id" \in DOMAIN result
    /\ Len(topics) = 1
    /\ Len(fetch.search_terms) = 2
    /\ Len(QueriesOf(trace, topics[1].name)) = 2
    /\ TotalItems(news_results) = 3
    /\ Count(trace, "generation") = 2 * Len(topics) + TotalItems(news_results) + 2

====
